---- MODULE Spec2Model ----
(***************************************************************************)
(* A model of compare.py: flatten_json, compare_json and main.             *)
(*                                                                         *)
(* Python strings are sequences of one-character strings, so that          *)
(* concatenation, truthiness, basename and code-point ordering are         *)
(* computed and not assumed.  A Python dict is a sequence of <<key,        *)
(* value>> pairs with unique keys, in insertion order.  A JSON value is a  *)
(* record: [t |-> "dict", items |-> pairs], [t |-> "list", items |->       *)
(* values], or a scalar [t, n, s, nan] with t the Python type.             *)
(***************************************************************************)
EXTENDS Integers, Sequences, FiniteSets, TLC

VARIABLES
    pc,        \* position of the run in main / compare_json
    file1,     \* args.file1
    file2,     \* args.file2
    disk,      \* what each of the two argument paths references
    opened,    \* the arguments (1, 2) whose file has been opened for reading
    data1,     \* compare_json's data1 (None before the load)
    data2,     \* compare_json's data2
    flat1,     \* compare_json's flat1
    flat2,     \* compare_json's flat2
    result,    \* main's result: the report dict
    outfile,   \* the output destination: number of writes and its content
    stdout,    \* lines printed to standard output
    stderr,    \* lines printed to standard error
    exitcode   \* the process's exit status (-1 while running)

vars == <<pc, file1, file2, disk, opened, data1, data2, flat1, flat2,
          result, outfile, stdout, stderr, exitcode>>

---------------------------------------------------------------------------
(* Bounds of the model. *)

MaxTotal == 5       \* nodes of the two documents together, in Spec
MaxSelfSize == 4    \* nodes of the document, in SpecSelf

---------------------------------------------------------------------------
(* Python str. *)

\* ord(c) for the characters the model uses.
Ord(c) ==
    CASE c = "." -> 46 [] c = "/" -> 47
      [] c = "0" -> 48 [] c = "1" -> 49 [] c = "2" -> 50 [] c = "3" -> 51
      [] c = "4" -> 52 [] c = "5" -> 53 [] c = "6" -> 54 [] c = "7" -> 55
      [] c = "8" -> 56 [] c = "9" -> 57
      [] c = "N" -> 78 [] c = "_" -> 95
      [] c = "a" -> 97 [] c = "b" -> 98 [] c = "d" -> 100 [] c = "e" -> 101
      [] c = "f" -> 102 [] c = "g" -> 103 [] c = "h" -> 104
      [] c = "i" -> 105 [] c = "k" -> 107 [] c = "l" -> 108
      [] c = "n" -> 110 [] c = "o" -> 111 [] c = "r" -> 114
      [] c = "s" -> 115 [] c = "t" -> 116 [] c = "u" -> 117
      [] c = "v" -> 118 [] c = "y" -> 121 [] c = "z" -> 122

\* a < b for two str: lexicographic by code point.
RECURSIVE StrLess(_, _)
StrLess(a, b) ==
    IF b = <<>> THEN FALSE
    ELSE IF a = <<>> THEN TRUE
    ELSE IF Head(a) = Head(b) THEN StrLess(Tail(a), Tail(b))
    ELSE Ord(Head(a)) < Ord(Head(b))

\* sorted(S) for a set S of str.
RECURSIVE sorted(_)
sorted(S) ==
    IF S = {} THEN <<>>
    ELSE LET m == CHOOSE x \in S : \A y \in S \ {x} : StrLess(x, y)
         IN  <<m>> \o sorted(S \ {m})

\* str(i) for an int i >= 0.
RECURSIVE str(_)
str(i) ==
    LET digit(d) == <<"0", "1", "2", "3", "4", "5", "6", "7", "8", "9">>[d + 1]
    IN  IF i < 10 THEN <<digit(i)>> ELSE str(i \div 10) \o <<digit(i % 10)>>

\* os.path.basename(p): what follows the last "/".
RECURSIVE basename(_)
basename(p) ==
    IF \A i \in DOMAIN p : p[i] # "/" THEN p ELSE basename(Tail(p))

---------------------------------------------------------------------------
(* Python dict: insertion-ordered pairs with unique keys. *)

DictKeys(d) == {d[i][1] : i \in DOMAIN d}

DictGet(d, k) == d[CHOOSE i \in DOMAIN d : d[i][1] = k][2]

\* d[k] = v
DictSet(d, k, v) ==
    IF k \in DictKeys(d)
    THEN [i \in DOMAIN d |-> IF d[i][1] = k THEN <<k, v>> ELSE d[i]]
    ELSE Append(d, <<k, v>>)

\* d.update(e); also a dict display {k1: v1, k2: v2, ...} is DictUpdate(<<>>, pairs)
RECURSIVE DictUpdate(_, _)
DictUpdate(d, e) ==
    IF e = <<>> THEN d
    ELSE DictUpdate(DictSet(d, Head(e)[1], Head(e)[2]), Tail(e))

---------------------------------------------------------------------------
(* JSON values as json.load returns them. *)

PyNone == [t |-> "NoneType", n |-> 0, s |-> <<>>, nan |-> FALSE]
PyBool(b) == [t |-> "bool", n |-> IF b THEN 1 ELSE 0, s |-> <<>>, nan |-> FALSE]
PyInt(i) == [t |-> "int", n |-> i, s |-> <<>>, nan |-> FALSE]
PyNaN == [t |-> "float", n |-> 0, s |-> <<>>, nan |-> TRUE]
PyStr(x) == [t |-> "str", n |-> 0, s |-> x, nan |-> FALSE]
PyDict(pairs) == [t |-> "dict", items |-> pairs]
PyList(elems) == [t |-> "list", items |-> elems]

\* a != b (bool is a subclass of int; nan differs from everything; the
\* values flatten_json records are scalars, and a container differs from
\* every scalar)
PyNotEqual(a, b) ==
    LET container(x) == x.t \in {"dict", "list"}
        numeric(x) == x.t \in {"bool", "int", "float"}
    IN  IF container(a) \/ container(b) THEN a # b
        ELSE IF a.nan \/ b.nan THEN TRUE
        ELSE IF numeric(a) /\ numeric(b) THEN a.n # b.n
        ELSE IF a.t = "str" /\ b.t = "str" THEN a.s # b.s
        ELSE ~(a.t = "NoneType" /\ b.t = "NoneType")

---------------------------------------------------------------------------
(* flatten_json *)

Sep == <<".">>

\* new_key of the dict branch
DictNewKey(parent_key, sep, k) ==
    IF parent_key # <<>> THEN parent_key \o sep \o k ELSE k

\* new_key of the list branch
ListNewKey(parent_key, sep, i) ==
    IF parent_key # <<>> THEN parent_key \o sep \o str(i) ELSE str(i)

\* items[parent_key] = data, on the fresh items of a scalar's call
LeafItems(parent_key, data) == DictSet(<<>>, parent_key, data)

RECURSIVE flatten_json(_, _, _), FlattenDictLoop(_, _, _, _), FlattenListLoop(_, _, _, _, _)
\* flatten_json recording an empty container as a leaf
flatten_json_keeps_empty(data, parent_key, sep) ==
    IF data.t = "dict" /\ data.items # <<>>
    THEN FlattenDictLoop(data.items, parent_key, sep, <<>>)
    ELSE IF data.t = "list" /\ data.items # <<>>
    THEN FlattenListLoop(data.items, 0, parent_key, sep, <<>>)
    ELSE LeafItems(parent_key, data)

flatten_json(data, parent_key, sep) ==
    IF data.t = "dict" THEN FlattenDictLoop(data.items, parent_key, sep, <<>>)
    ELSE IF data.t = "list" THEN FlattenListLoop(data.items, 0, parent_key, sep, <<>>)
    ELSE LeafItems(parent_key, data)

\* for k, v in data.items(): items.update(flatten_json(v, new_key, sep=sep))
FlattenDictLoop(rest, parent_key, sep, items) ==
    IF rest = <<>> THEN items
    ELSE LET k == Head(rest)[1]
             v == Head(rest)[2]
             new_key == DictNewKey(parent_key, sep, k)
         IN  FlattenDictLoop(Tail(rest), parent_key, sep,
                             DictUpdate(items, flatten_json(v, new_key, sep)))

\* for i, v in enumerate(data): items.update(flatten_json(v, new_key, sep=sep))
FlattenListLoop(rest, i, parent_key, sep, items) ==
    IF rest = <<>> THEN items
    ELSE LET new_key == ListNewKey(parent_key, sep, i)
         IN  FlattenListLoop(Tail(rest), i + 1, parent_key, sep,
                             DictUpdate(items, flatten_json(Head(rest), new_key, sep)))

---------------------------------------------------------------------------
(* compare_json, after the files are loaded *)

KeyField == <<"k", "e", "y">>
OnlyInPrefix == <<"o", "n", "l", "y", "_", "i", "n", "_">>
DifferingField == <<"d", "i", "f", "f", "e", "r", "i", "n", "g", "_", "v", "a", "l", "u", "e", "s">>
IdenticalField == <<"i", "n", "_", "b", "o", "t", "h", "_", "i", "d", "e", "n", "t", "i", "c", "a", "l">>

\* f'only_in_{os.path.basename(file)}'
OnlyInField(file) == OnlyInPrefix \o basename(file)

\* the dict display appended to diffs
DiffEntry(key, f1, f2, fl1, fl2) ==
    DictUpdate(<<>>, << <<KeyField, PyStr(key)>>,
                        <<basename(f1), DictGet(fl1, key)>>,
                        <<basename(f2), DictGet(fl2, key)>> >>)

\* ValuesDiffer with == for !=
ValuesDifferInverted(key, fl1, fl2) == ~PyNotEqual(DictGet(fl1, key), DictGet(fl2, key))

\* the branch taken for a key of both flat dicts
ValuesDiffer(key, fl1, fl2) == PyNotEqual(DictGet(fl1, key), DictGet(fl2, key))

\* for key in sorted(keys1 & keys2): ...   yields <<diffs, in_both>>
RECURSIVE CompareLoop(_, _, _, _, _, _, _)
CompareLoop(keys, f1, f2, fl1, fl2, diffs, in_both) ==
    IF keys = <<>> THEN <<diffs, in_both>>
    ELSE LET key == Head(keys)
         IN  IF ValuesDiffer(key, fl1, fl2)
             THEN CompareLoop(Tail(keys), f1, f2, fl1, fl2,
                              Append(diffs, DiffEntry(key, f1, f2, fl1, fl2)), in_both)
             ELSE CompareLoop(Tail(keys), f1, f2, fl1, fl2,
                              diffs, Append(in_both, key))

only1Of(fl1, fl2) == sorted(DictKeys(fl1) \ DictKeys(fl2))
only2Of(fl1, fl2) == sorted(DictKeys(fl2) \ DictKeys(fl1))
BothKeys(fl1, fl2) == sorted(DictKeys(fl1) \cap DictKeys(fl2))

\* the dict display compare_json returns
ReturnDict(f1, f2, only1, only2, diffs, in_both) ==
    DictUpdate(<<>>, << <<OnlyInField(f1), only1>>,
                        <<OnlyInField(f2), only2>>,
                        <<DifferingField, diffs>>,
                        <<IdenticalField, in_both>> >>)

\* compare_json from the two loaded documents to its return value
CompareLoaded(f1, f2, fl1, fl2) ==
    LET loop == CompareLoop(BothKeys(fl1, fl2), f1, f2, fl1, fl2, <<>>, <<>>)
    IN  ReturnDict(f1, f2, only1Of(fl1, fl2), only2Of(fl1, fl2), loop[1], loop[2])

---------------------------------------------------------------------------
(* The inputs: documents json.load can return, files, arguments. *)

\* Documents by size: a scalar or an empty container is one node.  T[m] is
\* the set of documents of exactly m nodes, for m up to Len(T).

\* the items of a mapping of n nodes below it, with unique keys out of free
RECURSIVE PairsOfSize(_, _, _)
PairsOfSize(n, free, T) ==
    IF n = 0 THEN {<<>>}
    ELSE UNION {UNION {{<< <<k, d>> >> \o r : d \in T[m],
                                           r \in PairsOfSize(n - m, free \ {k}, T)}
                       : m \in 1..n} : k \in free}

\* the elements of a sequence of n nodes below it
RECURSIVE ElemsOfSize(_, _)
ElemsOfSize(n, T) ==
    IF n = 0 THEN {<<>>}
    ELSE UNION {{<<d>> \o r : d \in T[m], r \in ElemsOfSize(n - m, T)} : m \in 1..n}

\* T extended to the documents of up to n nodes, keys in K, scalars in S
RECURSIVE DocTable(_, _, _, _)
DocTable(n, K, S, T) ==
    IF Len(T) >= n THEN T
    ELSE LET m == Len(T) + 1
             new == IF m = 1 THEN S \cup {PyDict(<<>>), PyList(<<>>)}
                    ELSE {PyDict(e) : e \in PairsOfSize(m - 1, K, T)}
                         \cup {PyList(e) : e \in ElemsOfSize(m - 1, T)}
         IN  DocTable(n, K, S, Append(T, new))

Scalars == {PyBool(TRUE), PyInt(1), PyStr(<<"1">>), PyNaN}
Keys == {<<"a">>, <<"a", ".", "0">>}
SelfScalars == {PyInt(1), PyStr(<<"1">>), PyNaN}
SelfKeys == {<<>>, <<"0">>, <<"0", ".", "0">>}

\* what a path references: nothing, a directory, a file json.load rejects,
\* or a file json.load turns into doc
Missing == [kind |-> "missing"]
Directory == [kind |-> "dir"]
Malformed == [kind |-> "malformed"]
JsonFile(d) == [kind |-> "json", doc |-> d]

\* os.path.isfile(path)
isfile(content) == content.kind \in {"malformed", "json"}

\* the command lines: two files of different names, two files of the same
\* name in two directories, a file named key
ArgPairs ==
    { <<<<"a", "/", "e", "n">>, <<"z", "h">>>>,
      <<<<"a", "/", "e", "n">>, <<"b", "/", "e", "n">>>>,
      <<<<"k", "e", "y">>, <<"z", "h">>>> }

\* and one path given twice (only where both contents are the same)
SelfArgPairs == ArgPairs \cup { <<<<"z", "h">>, <<"z", "h">>>> }

NotJson == {Missing, Directory, Malformed}

Docs == DocTable(MaxTotal - 1, Keys, Scalars, <<>>)
SelfDocs == DocTable(MaxSelfSize, SelfKeys, SelfScalars, <<>>)

\* the contents of exactly m nodes, a path that holds no document counting
\* as one node
ContentsOfSize(m, T) ==
    (IF m = 1 THEN NotJson ELSE {}) \cup {JsonFile(d) : d \in T[m]}

\* the sizes of the two contents in Spec: at most MaxTotal nodes together
SizePairs ==
    {mm \in (1..(MaxTotal - 1)) \X (1..(MaxTotal - 1)) : mm[1] + mm[2] <= MaxTotal}

\* in SpecSelf both paths reference the same content, of at most MaxSelfSize nodes
SelfSizePairs == {<<m, m>> : m \in 1..MaxSelfSize}

Unset == [t |-> "unset"]

InitOver(argv, sizes, T, same) ==
    /\ pc = "check1"
    /\ \E args \in argv : file1 = args[1] /\ file2 = args[2]
    /\ \E mm \in sizes :
         \E c1 \in ContentsOfSize(mm[1], T) :
            \E c2 \in (IF same THEN {c1} ELSE ContentsOfSize(mm[2], T)) :
               disk = [i \in {1, 2} |-> IF i = 1 THEN c1 ELSE c2]
    /\ opened = {}
    /\ data1 = Unset
    /\ data2 = Unset
    /\ flat1 = <<>>
    /\ flat2 = <<>>
    /\ result = <<>>
    /\ outfile = [writes |-> 0, content |-> <<>>]
    /\ stdout = <<>>
    /\ stderr = <<>>
    /\ exitcode = -1

Init == InitOver(ArgPairs, SizePairs, Docs, FALSE)

InitSelf == InitOver(SelfArgPairs, SelfSizePairs, SelfDocs, TRUE)

---------------------------------------------------------------------------
(* main and compare_json, step by step *)

Path(i) == IF i = 1 THEN file1 ELSE file2

\* CheckFile checking the first path only
CheckFileFirstOnly(i) ==
    /\ pc = (IF i = 1 THEN "check1" ELSE "check2")
    /\ IF i = 2 \/ isfile(disk[i])
       THEN /\ pc' = (IF i = 1 THEN "check2" ELSE "load1")
            /\ UNCHANGED <<stderr, exitcode>>
       ELSE /\ stderr' = Append(stderr, [msg |-> "Error: cannot find JSON file at", path |-> Path(i)])
            /\ exitcode' = 1
            /\ pc' = "exit"
    /\ UNCHANGED <<file1, file2, disk, opened, data1, data2, flat1, flat2,
                   result, outfile, stdout>>

\* one round of: for path in (file1, file2): if not os.path.isfile(path): ...
CheckFile(i) ==
    /\ pc = (IF i = 1 THEN "check1" ELSE "check2")
    /\ IF isfile(disk[i])
       THEN /\ pc' = (IF i = 1 THEN "check2" ELSE "load1")
            /\ UNCHANGED <<stderr, exitcode>>
       ELSE /\ stderr' = Append(stderr, [msg |-> "Error: cannot find JSON file at", path |-> Path(i)])
            /\ exitcode' = 1
            /\ pc' = "exit"
    /\ UNCHANGED <<file1, file2, disk, opened, data1, data2, flat1, flat2,
                   result, outfile, stdout>>

\* LoadFile taking a file that does not parse for an empty object
LoadFileLenient(i) ==
    /\ pc = (IF i = 1 THEN "load1" ELSE "load2")
    /\ opened' = opened \cup {i}
    /\ LET doc == IF disk[i].kind = "json" THEN disk[i].doc ELSE PyDict(<<>>)
       IN  /\ data1' = (IF i = 1 THEN doc ELSE data1)
           /\ data2' = (IF i = 2 THEN doc ELSE data2)
    /\ pc' = (IF i = 1 THEN "load2" ELSE "compare")
    /\ UNCHANGED <<file1, file2, disk, flat1, flat2, result, outfile, stdout,
                   stderr, exitcode>>

\* with open(file_i, 'r', encoding='utf-8') as f: data_i = json.load(f)
LoadFile(i) ==
    /\ pc = (IF i = 1 THEN "load1" ELSE "load2")
    /\ opened' = opened \cup {i}
    /\ IF disk[i].kind = "json"
       THEN /\ data1' = (IF i = 1 THEN disk[i].doc ELSE data1)
            /\ data2' = (IF i = 2 THEN disk[i].doc ELSE data2)
            /\ pc' = (IF i = 1 THEN "load2" ELSE "compare")
            /\ UNCHANGED <<stderr, exitcode>>
       ELSE /\ stderr' = Append(stderr, [msg |-> "Traceback: JSONDecodeError", path |-> Path(i)])
            /\ exitcode' = 1
            /\ pc' = "raised"
            /\ UNCHANGED <<data1, data2>>
    /\ UNCHANGED <<file1, file2, disk, flat1, flat2, result, outfile, stdout>>

\* compare_json from "Flatten nested structure" to its return, and
\* main's result = compare_json(args.file1, args.file2)
Compare ==
    /\ pc = "compare"
    /\ flat1' = flatten_json(data1, <<>>, Sep)
    /\ flat2' = flatten_json(data2, <<>>, Sep)
    /\ result' = CompareLoaded(file1, file2, flat1', flat2')
    /\ pc' = "write"
    /\ UNCHANGED <<file1, file2, disk, opened, data1, data2, outfile,
                   stdout, stderr, exitcode>>

\* with open(args.output, 'w', encoding='utf-8') as out: json.dump(result, out, ...)
WriteResult ==
    /\ pc = "write"
    /\ outfile' = [writes |-> outfile.writes + 1, content |-> result]
    /\ pc' = "print"
    /\ UNCHANGED <<file1, file2, disk, opened, data1, data2, flat1, flat2,
                   result, stdout, stderr, exitcode>>

\* open(args.output, 'w') raises OSError: the destination cannot be created
WriteFails ==
    /\ pc = "write"
    /\ stderr' = Append(stderr, [msg |-> "Traceback: OSError", path |-> <<>>])
    /\ exitcode' = 1
    /\ pc' = "raised"
    /\ UNCHANGED <<file1, file2, disk, opened, data1, data2, flat1, flat2,
                   result, outfile, stdout>>

\* print(f"Differences (including value diffs) written to {args.output}")
PrintDone ==
    /\ pc = "print"
    /\ stdout' = Append(stdout, [msg |-> "Differences (including value diffs) written to"])
    /\ exitcode' = 0
    /\ pc' = "done"
    /\ UNCHANGED <<file1, file2, disk, opened, data1, data2, flat1, flat2,
                   result, outfile, stderr>>

Next ==
    \/ \E i \in {1, 2} : CheckFile(i)
    \/ \E i \in {1, 2} : LoadFile(i)
    \/ Compare
    \/ WriteResult
    \/ WriteFails
    \/ PrintDone

Spec == Init /\ [][Next]_vars

SpecSelf == InitSelf /\ [][Next]_vars

---------------------------------------------------------------------------
(* What the claims speak of. *)

Range(q) == {q[i] : i \in DOMAIN q}

NoDuplicates(q) == \A i, j \in DOMAIN q : i # j => q[i] # q[j]

\* the report's collections, read from the report by field name
OnlyAList == DictGet(result, OnlyInField(file1))
OnlyBList == DictGet(result, OnlyInField(file2))
DiffList == DictGet(result, DifferingField)
IdenticalList == DictGet(result, IdenticalField)
\* the 'key' fields of differing_values, as Python values
DiffKeys == [i \in DOMAIN DiffList |-> DictGet(DiffList[i], KeyField)]

\* a list of str as a list of Python values
AsPy(q) == [i \in DOMAIN q |-> PyStr(q[i])]

\* Compare has acted: the run has flattened both documents and built the report
Compared == pc = "write"

IsScalar(d) == d.t \notin {"dict", "list"}

\* the scalar leaves of a document by a depth-first traversal: <<steps, value>>,
\* a mapping step the key, a sequence step the zero-based index in decimal
RECURSIVE Leaves(_)
Leaves(d) ==
    IF d.t = "dict"
    THEN UNION {{<< <<d.items[i][1]>> \o l[1], l[2] >> : l \in Leaves(d.items[i][2])}
                : i \in DOMAIN d.items}
    ELSE IF d.t = "list"
    THEN UNION {{<< <<str(i - 1)>> \o l[1], l[2] >> : l \in Leaves(d.items[i])}
                : i \in DOMAIN d.items}
    ELSE {<< <<>>, d >>}

\* the steps joined with the separator
RECURSIVE Join(_, _)
Join(steps, sep) ==
    IF steps = <<>> THEN <<>>
    ELSE IF Len(steps) = 1 THEN steps[1]
    ELSE steps[1] \o sep \o Join(Tail(steps), sep)

HasNaN(d) == \E l \in Leaves(d) : l[2].nan

---------------------------------------------------------------------------
(* C5: if either argument does not reference an existing regular file, the
   run ends with exit code 1 and one diagnostic on stderr; both paths are
   checked before any file is opened or parsed; the output file is never
   written in that run. *)
C5_MissingFileExits ==
    /\ (opened # {} \/ data1 # Unset \/ data2 # Unset)
         => /\ isfile(disk[1]) /\ isfile(disk[2])
            /\ pc \notin {"check1", "check2"}
    /\ (~isfile(disk[1]) \/ ~isfile(disk[2]))
         => /\ pc \in {"check1", "check2", "exit"}
            /\ opened = {} /\ data1 = Unset /\ data2 = Unset
            /\ outfile.writes = 0
            /\ stdout = <<>>
            /\ pc # "exit" => (exitcode = -1 /\ stderr = <<>> /\ ENABLED Next)
            /\ pc = "exit" =>
                 /\ exitcode = 1
                 /\ Len(stderr) = 1
                 /\ stderr[1].msg = "Error: cannot find JSON file at"
                 /\ stderr[1].path = (IF ~isfile(disk[1]) THEN file1 ELSE file2)

\* file A exists but is malformed, file B is missing: the run has exited
C5_Witness ==
    /\ disk[1] = Malformed /\ disk[2] = Missing
    /\ pc = "exit" /\ exitcode = 1 /\ outfile.writes = 0

---------------------------------------------------------------------------
(* C6: if both files exist but one fails to parse, the run terminates with
   an error and the output file is not written; in every run the single
   write of the output happens only after both documents were loaded,
   flattened and compared, and the confirmation is printed only after the
   write. *)
C6_WriteOnlyAfterCompare ==
    /\ (isfile(disk[1]) /\ isfile(disk[2]) /\ Malformed \in Range(disk))
         => /\ pc \in {"check1", "check2", "load1", "load2", "raised"}
            /\ outfile = [writes |-> 0, content |-> <<>>]
            /\ stdout = <<>>
            /\ pc # "raised" => ENABLED Next
            /\ pc = "raised" => exitcode = 1 /\ stderr # <<>>
    /\ outfile.writes <= 1
    /\ outfile.writes = 1
         => /\ disk[1].kind = "json" /\ disk[2].kind = "json"
            /\ opened = {1, 2}
            /\ data1 = disk[1].doc /\ data2 = disk[2].doc
            /\ flat1 = flatten_json(data1, <<>>, Sep)
            /\ flat2 = flatten_json(data2, <<>>, Sep)
            /\ result = CompareLoaded(file1, file2, flat1, flat2)
            /\ outfile.content = result
            /\ pc \in {"print", "done"}
    /\ stdout # <<>> => (outfile.writes = 1 /\ pc = "done" /\ exitcode = 0)

\* file A parses, file B does not: the run has raised, nothing was written
C6_Witness ==
    /\ disk[1].kind = "json" /\ disk[2] = Malformed
    /\ pc = "raised" /\ opened = {1, 2} /\ outfile.writes = 0

---------------------------------------------------------------------------
(* C1: the four result collections (only-in-A paths, only-in-B paths, the
   'key' fields of differing_values, in_both_identical paths) have no
   duplicates, are pairwise disjoint, and their union is keys(flatten(A))
   \cup keys(flatten(B)); their sizes add up to the size of that union. *)
C1_Partition ==
    Compared =>
        LET a == AsPy(OnlyAList)
            b == AsPy(OnlyBList)
            d == DiffKeys
            i == AsPy(IdenticalList)
            all == {PyStr(k) : k \in DictKeys(flat1) \cup DictKeys(flat2)}
        IN  /\ NoDuplicates(a) /\ NoDuplicates(b) /\ NoDuplicates(d) /\ NoDuplicates(i)
            /\ Range(a) \cap Range(b) = {} /\ Range(a) \cap Range(d) = {}
            /\ Range(a) \cap Range(i) = {} /\ Range(b) \cap Range(d) = {}
            /\ Range(b) \cap Range(i) = {} /\ Range(d) \cap Range(i) = {}
            /\ Range(a) \cup Range(b) \cup Range(d) \cup Range(i) = all
            /\ Len(a) + Len(b) + Len(d) + Len(i) = Cardinality(all)

---------------------------------------------------------------------------
(* C2: flatten_json is injective over leaves: every scalar leaf of the
   document appears exactly once in the flat dict, and the flat dict has as
   many entries as the document has scalar leaves. *)
C2_FlattenInjective ==
    Compared =>
        LET leaves == Leaves(data1)
            values == {l[2] : l \in leaves} \cup {flat1[i][2] : i \in DOMAIN flat1}
        IN  /\ Len(flat1) = Cardinality(leaves)
            /\ \A v \in values :
                 Cardinality({l \in leaves : l[2] = v})
                   = Cardinality({i \in DOMAIN flat1 : flat1[i][2] = v})

---------------------------------------------------------------------------
JsonType(v) ==
    CASE v.t = "NoneType" -> "null"
      [] v.t = "bool" -> "boolean"
      [] v.t \in {"int", "float"} -> "number"
      [] v.t = "str" -> "string"

TypedEqual(a, b) ==
    /\ JsonType(a) = JsonType(b)
    /\ ~a.nan /\ ~b.nan
    /\ a.n = b.n /\ a.s = b.s

(* C3: a path of both flat views is in in_both_identical if and only if the
   two leaves are equal under type-sensitive equality (same JSON type and
   same value, floats by exact equality), and in differing_values
   otherwise. *)
C3_TypeSensitive ==
    Compared =>
        LET both == DictKeys(flat1) \cap DictKeys(flat2)
            equal(k) == TypedEqual(DictGet(flat1, k), DictGet(flat2, k))
        IN  /\ \A k \in both : (k \in Range(IdenticalList)) <=> equal(k)
            /\ Len(DiffList) = Cardinality({k \in both : ~equal(k)})

---------------------------------------------------------------------------
(* C7: the report has exactly the four fields only_in_<basename A>,
   only_in_<basename B>, differing_values, in_both_identical, and every
   differing_values entry has exactly the three fields key, <basename A>,
   <basename B> holding the path, the value from A and the value from B. *)
C7_ReportShape ==
    Compared =>
        /\ Len(result) = 4
        /\ DictKeys(result) = {OnlyInField(file1), OnlyInField(file2),
                               DifferingField, IdenticalField}
        /\ Cardinality(DictKeys(result)) = 4
        /\ \A i \in DOMAIN DiffList :
             LET e == DiffList[i]
             IN  /\ Len(e) = 3
                 /\ DictKeys(e) = {KeyField, basename(file1), basename(file2)}
                 /\ DictGet(e, KeyField).t = "str"
                 /\ DictGet(e, KeyField).s \in DictKeys(flat1) \cap DictKeys(flat2)
                 /\ DictGet(e, basename(file1)) = DictGet(flat1, DictGet(e, KeyField).s)
                 /\ DictGet(e, basename(file2)) = DictGet(flat2, DictGet(e, KeyField).s)

---------------------------------------------------------------------------
(* C9: the entries of flatten_json(D) are exactly the pairs (path, value)
   of a depth-first traversal of D, the path being the steps from the root
   to the leaf joined with '.'; a scalar document yields the single entry
   with the empty path. *)
C9_PathsAreJoinedSteps ==
    Compared =>
        /\ Range(flat1) = {<<Join(l[1], Sep), l[2]>> : l \in Leaves(data1)}
        /\ IsScalar(data1) => flat1 = << << <<>>, data1 >> >>

---------------------------------------------------------------------------
StrictlyAscending(q) == \A i \in 1..(Len(q) - 1) : StrLess(q[i], q[i + 1])

RemoveAt(q, i) == SubSeq(q, 1, i - 1) \o SubSeq(q, i + 1, Len(q))

\* the documents that differ from d only in the order of their mappings' keys
RECURSIVE Reorderings(_), ReorderPairs(_), ReorderElems(_)
Reorderings(d) ==
    IF d.t = "dict" THEN {PyDict(e) : e \in ReorderPairs(d.items)}
    ELSE IF d.t = "list" THEN {PyList(e) : e \in ReorderElems(d.items)}
    ELSE {d}

ReorderPairs(pairs) ==
    IF pairs = <<>> THEN {<<>>}
    ELSE UNION {{<< <<pairs[i][1], v>> >> \o r : v \in Reorderings(pairs[i][2]),
                                                r \in ReorderPairs(RemoveAt(pairs, i))}
                : i \in DOMAIN pairs}

ReorderElems(elems) ==
    IF elems = <<>> THEN {<<>>}
    ELSE {<<v>> \o r : v \in Reorderings(Head(elems)), r \in ReorderElems(Tail(elems))}

(* C8: the only-in-A list, the only-in-B list, in_both_identical and the
   'key' fields of differing_values are each strictly ascending by code
   point, and the report does not depend on the insertion order of the
   keys of the documents' mappings. *)
C8_SortedAndOrderIndependent ==
    Compared =>
        /\ StrictlyAscending(OnlyAList)
        /\ StrictlyAscending(OnlyBList)
        /\ StrictlyAscending(IdenticalList)
        /\ \A i \in DOMAIN DiffKeys : DiffKeys[i].t = "str"
        /\ StrictlyAscending([i \in DOMAIN DiffKeys |-> DiffKeys[i].s])
        /\ \A a \in Reorderings(data1), b \in Reorderings(data2) :
             CompareLoaded(file1, file2, flatten_json(a, <<>>, Sep),
                           flatten_json(b, <<>>, Sep)) = result

---------------------------------------------------------------------------
(* C4: comparing a document with itself yields an empty only-in-A list, an
   empty only-in-B list, an empty differing_values and in_both_identical
   equal to the sorted paths of flatten_json(D). *)
SelfCompareClean ==
    /\ OnlyAList = <<>>
    /\ OnlyBList = <<>>
    /\ DiffList = <<>>
    /\ IdenticalList = sorted(DictKeys(flatten_json(data1, <<>>, Sep)))

---------------------------------------------------------------------------
(* C10: an empty mapping or sequence contributes no entry to the flat view
   at any depth, so a document without scalar leaves flattens to the empty
   dict and every entry of a flat view and of the report stems from a
   scalar leaf; two documents that differ only in empty containers produce
   a report with empty only-in-A, only-in-B and differing_values. *)
HasLeaf(d) == Leaves(d) # {}

\* d without its containers that hold no scalar leaf: a mapping loses such
\* entries, a sequence loses them at its end and keeps an empty sequence in
\* their place elsewhere (the indices of its other elements stay)
RECURSIVE Prune(_), PrunePairs(_), PruneElems(_)
Prune(d) ==
    IF IsScalar(d) THEN d
    ELSE IF ~HasLeaf(d) THEN PyList(<<>>)
    ELSE IF d.t = "dict" THEN PyDict(PrunePairs(d.items))
    ELSE PyList(PruneElems(d.items))

PrunePairs(pairs) ==
    IF pairs = <<>> THEN <<>>
    ELSE IF HasLeaf(Head(pairs)[2])
    THEN << <<Head(pairs)[1], Prune(Head(pairs)[2])>> >> \o PrunePairs(Tail(pairs))
    ELSE PrunePairs(Tail(pairs))

PruneElems(elems) ==
    IF \A i \in DOMAIN elems : ~HasLeaf(elems[i]) THEN <<>>
    ELSE <<Prune(Head(elems))>> \o PruneElems(Tail(elems))

\* a and b differ only in empty containers
SameUpToEmpty(a, b) == Prune(a) = Prune(b)

\* entries stem from scalar leaves only
OnlyLeavesContribute(d, flat) ==
    /\ ~HasLeaf(d) => flat = <<>>
    /\ Len(flat) <= Cardinality(Leaves(d))
    /\ \A i \in DOMAIN flat :
         IsScalar(flat[i][2]) /\ flat[i][2] \in {l[2] : l \in Leaves(d)}

ReportOnlyOfLeaves ==
    /\ OnlyLeavesContribute(data1, flat1)
    /\ OnlyLeavesContribute(data2, flat2)
    /\ Range(OnlyAList) \cup Range(OnlyBList) \cup Range(IdenticalList)
         \subseteq DictKeys(flat1) \cup DictKeys(flat2)
    /\ Len(DiffList) <= Cardinality(DictKeys(flat1) \cap DictKeys(flat2))

NoDifferenceReported == OnlyAList = <<>> /\ OnlyBList = <<>> /\ DiffList = <<>>

====
